---- MODULE Spec2Model ----
(***************************************************************************)
(* RockRider backend: the post store, the user store and the three feed   *)
(* endpoints of the posts router (following, for-you, discover), together *)
(* with the auth / optionalAuth middleware that runs in front of them.    *)
(*                                                                         *)
(* Time is counted in days.  A request is served in two steps, as in the  *)
(* Express chain: the middleware step (auth or optionalAuth) that either  *)
(* answers 401 or leaves the request pending with req.user set, and the   *)
(* handler step that answers it.  The client is sequential: it reads the  *)
(* response before it sends the next request.                             *)
(***************************************************************************)
EXTENDS Integers, Sequences, FiniteSets, TLC

\* ---------------------------------------------------------------- bounds
\* posts ever created
MaxPosts == 2
\* how far the store may be from the freshly registered one: a post, a like,
\* a comment, a pin, a follow edge and a clock step count 1; an inactive
\* post and a disabled or removed account count OwnerWeight
MaxStoreSize == 3
\* the clock, in days
MaxNow == 8
\* the largest page and limit a client asks for
MaxPage == 2
MaxLimit == 3

\* ------------------------------------------------------- program constants
DefaultPage == 1
DefaultLimit == 10
PopularDays == 14
VerifiedDays == 21
DiverseDays == 7
DiscoverDays == 7
MinInteractions == 1

\* ------------------------------------------------------------- universes
Users == {"u1", "u2", "u3"}
Anonymous == "anon"
NoToken == "none"
BadToken == "bad"
\* a token is absent, malformed, or a valid token carrying a userId
Tokens == Users \cup {NoToken, BadToken}
\* the clock moves a week or a week and a day at a time, so that a post is
\* seen at an age of 0, 7, 8, 14, 15, ... days: on both sides of a 7-day window
TickDays == {7, 8}
\* a query-string parameter that is missing or not a number parses to NaN
QNaN == -1
PageQueries == {QNaN, 0} \cup (1..MaxPage)
LimitQueries == {QNaN, 0} \cup (1..MaxLimit)

VARIABLES users, posts, now, req, response

\* the process and its surroundings outside the two stores:
\*   clock         Date.now(), in seconds
\*   production    NODE_ENV === 'production'
\*   ipHits        the hit counters of the global limiter, by address
\*   userRequests  the Map of each mounted userRateLimitMiddleware
\*   admitted      the times at which a user's requests reached a handler
\*   jwts          the JWTs the server has signed
\*   mail          the reset e-mails sent
VARIABLES clock, production, ipHits, userRequests, admitted, jwts, mail

\* handlers between two of their awaits, and what they work on:
\*   calls     the handlers in flight, by connection
\*   versions  the __v of each post document
\*   events    the events collection
\*   lastAttend  history: the status each user asked for in their latest
\*               attend request that was answered 200, by event
VARIABLES calls, versions, events, lastAttend

raceVars == <<calls, versions, events, lastAttend>>

extVars == <<clock, production, ipHits, userRequests, admitted, jwts, mail,
             calls, versions, events, lastAttend>>

vars == <<users, posts, now, req, response,
          clock, production, ipHits, userRequests, admitted, jwts, mail,
          calls, versions, events, lastAttend>>

\* ---------------------------------------------------------------- helpers
RECURSIVE SumOver(_, _)
SumOver(f, S) ==
  IF S = {} THEN 0
  ELSE LET x == CHOOSE y \in S : TRUE IN f[x] + SumOver(f, S \ {x})

Min(a, b) == IF a < b THEN a ELSE b

\* the sequences that list every element of S once
RECURSIVE Perms(_)
Perms(S) ==
  IF Cardinality(S) <= 3
  THEN {f \in [1..Cardinality(S) -> S] : \A i, j \in DOMAIN f : i # j => f[i] # f[j]}
  ELSE UNION {{Append(f, x) : f \in Perms(S \ {x})} : x \in S}

\* ------------------------------------------------------------ user schema
\* default: null of a Date field and of resetPasswordToken
NoDate == -1
NoHash == <<"null", 0>>

UserDoc(t, v) ==
  [isActive |-> TRUE, userType |-> t, isVerified |-> v,
   following |-> {}, followers |-> {}, totalPosts |-> 0,
   password |-> 0, lastPasswordReset |-> NoDate,
   resetPasswordToken |-> NoHash, resetPasswordExpires |-> NoDate]

\* ------------------------------------------------------------ post schema
PostDoc(a, t) ==
  [author |-> a, createdAt |-> t, isActive |-> TRUE, isPinned |-> FALSE,
   likes |-> {}, comments |-> <<>>, content |-> "text"]

likesCount(p) == Cardinality(p.likes)
commentsCount(p) == Len(p.comments)

\* User.findById / Post.findById find a record
UserExists(u) == u \in DOMAIN users
PostExists(i) == i \in DOMAIN posts

\* what an out-of-band change by the store's owner counts in StoreSize
OwnerWeight == 1 + 1

StoreSize(us, ps, t) ==
  Cardinality(DOMAIN ps)
  + SumOver([i \in DOMAIN ps |->
               likesCount(ps[i]) + commentsCount(ps[i])
               + (IF ps[i].isActive THEN 0 ELSE OwnerWeight)
               + (IF ps[i].isPinned THEN 1 ELSE 0)], DOMAIN ps)
  + SumOver([u \in DOMAIN us |->
               Cardinality(us[u].following)
               + (IF us[u].isActive THEN 0 ELSE OwnerWeight)], DOMAIN us)
  + OwnerWeight * Cardinality(Users \ DOMAIN us)
  + ((t + 7) \div 8)

InBounds(us, ps, t) == StoreSize(us, ps, t) <= MaxStoreSize

NoRequest ==
  [route |-> "idle", token |-> NoToken, user |-> Anonymous, page |-> 0, limit |-> 0]
NoLocals == [algorithmPosts |-> <<>>, uniquePosts |-> <<>>, rows |-> 0]
\* the Authorization header of a request that carries no JWT, a malformed one
NoJwt == [userId |-> NoToken, iat |-> 0, exp |-> 0]
BadJwt == [userId |-> BadToken, iat |-> 0, exp |-> 0]

NoResponse ==
  [route |-> "none", token |-> NoToken, status |-> 0, code |-> "",
   viewer |-> Anonymous, page |-> 0, limit |-> 0, posts |-> <<>>, hasNext |-> FALSE,
   locals |-> NoLocals, jwt |-> NoJwt, resetToken |-> 0]

Idle == req = NoRequest /\ response = NoResponse

\* the app's routers, as app.use mounts them behind the user limiter
Mounts == {"/api/posts", "/api/users", "/api/events"}

\* the addresses a client sends from
Ips == {"ip1", "ip2", "ip3"}

\* the connections on which requests run side by side
Slots == {1, 2}

\* the local variables of a handler between two awaits:
\*   op, user, id, target  the route, req.user.userId, req.params.id as a post
\*                         id or as a user id
\*   pc                    the await the handler stands before, or "answered"
\*   flag, seen, version   what it read: isLiked / isFollowing, the array and
\*                         the __v of the document it loaded
\*   wrote                 the __v its save left behind
\*   status                the status it answered with
NoCall ==
  [op |-> "none", user |-> Anonymous, id |-> 0, target |-> Anonymous, pc |-> "idle",
   flag |-> FALSE, seen |-> {}, version |-> 0, wrote |-> 0, status |-> 0]

\* the one event of the seed
EventIds == {1}
EventDoc == [isActive |-> TRUE, attendees |-> <<>>]

\* no handler in flight, documents as first saved, the seeded event
RaceInit ==
  /\ calls = [s \in Slots |-> NoCall]
  /\ versions = [i \in 1..MaxPosts |-> 0]
  /\ events = [e \in EventIds |-> EventDoc]
  /\ lastAttend = [e \in EventIds |-> [u \in Users |-> "none"]]

\* a process that has just started, in development mode
ExtInit ==
  /\ clock = 0
  /\ production = FALSE
  /\ ipHits = [ip \in Ips |-> 0]
  /\ userRequests = [m \in Mounts |-> <<>>]
  /\ admitted = [u \in Users |-> <<>>]
  /\ jwts = {}
  /\ mail = {}
  /\ RaceInit

\* the two stores as the seed leaves them, and no request in flight
StoreInit ==
  /\ users = [u \in Users |->
                IF u = "u1" THEN UserDoc("fan", FALSE)
                ELSE IF u = "u2" THEN UserDoc("artist", TRUE)
                ELSE UserDoc("artist", FALSE)]
  /\ posts = <<>>
  /\ now = 0
  /\ req = NoRequest
  /\ response = NoResponse

Init == StoreInit /\ ExtInit

\* ------------------------------------------------------------ environment
\* the clock advances
Tick ==
  /\ response = NoResponse
  /\ \E d \in TickDays :
       /\ now + d <= MaxNow
       /\ now' = now + d
  /\ InBounds(users, posts, now')
  /\ UNCHANGED <<users, posts, req, response>>
  /\ UNCHANGED extVars

\* the store's owner clears or sets a post's isActive flag
StoreSetPostActive ==
  /\ response = NoResponse
  /\ \E i \in DOMAIN posts :
       posts' = [posts EXCEPT ![i].isActive = ~posts[i].isActive]
  /\ InBounds(users, posts', now)
  /\ UNCHANGED <<users, now, req, response>>
  /\ UNCHANGED extVars

\* the store's owner pins or unpins a post
StoreSetPostPinned ==
  /\ response = NoResponse
  /\ \E i \in DOMAIN posts :
       posts' = [posts EXCEPT ![i].isPinned = ~posts[i].isPinned]
  /\ InBounds(users, posts', now)
  /\ UNCHANGED <<users, now, req, response>>
  /\ UNCHANGED extVars

\* the store's owner removes a user record
StoreRemoveUser ==
  /\ response = NoResponse
  /\ \E u \in DOMAIN users :
       users' = [v \in DOMAIN users \ {u} |-> users[v]]
  /\ InBounds(users', posts, now)
  /\ UNCHANGED <<posts, now, req, response>>
  /\ UNCHANGED extVars

\* the store's owner disables or re-enables an account
StoreSetUserActive ==
  /\ response = NoResponse
  /\ \E u \in DOMAIN users :
       users' = [users EXCEPT ![u].isActive = ~users[u].isActive]
  /\ InBounds(users', posts, now)
  /\ UNCHANGED <<posts, now, req, response>>
  /\ UNCHANGED extVars

\* ------------------------------------------------------------- middleware
Reply(route, tok, status, code, viewer) ==
  [NoResponse EXCEPT !.route = route, !.token = tok, !.status = status,
                     !.code = code, !.viewer = viewer]

\* auth without its lookup of the user record
authWithoutLookup(tok) ==
  IF tok = NoToken THEN "NO_TOKEN"
  ELSE IF tok = BadToken THEN "INVALID_TOKEN"
  ELSE IF UserExists(tok) /\ ~users[tok].isActive THEN "ACCOUNT_DISABLED"
  ELSE ""

\* auth: the 401 code it answers with, or "" when it calls next()
auth(tok) ==
  IF tok = NoToken THEN "NO_TOKEN"
  ELSE IF tok = BadToken THEN "INVALID_TOKEN"
  ELSE IF ~UserExists(tok) THEN "USER_NOT_FOUND"
  ELSE IF ~users[tok].isActive THEN "ACCOUNT_DISABLED"
  ELSE ""

\* optionalAuth: req.user.userId, or Anonymous when req.user stays unset
optionalAuth(tok) ==
  IF tok = NoToken \/ tok = BadToken THEN Anonymous
  ELSE IF UserExists(tok) /\ users[tok].isActive THEN tok
  ELSE Anonymous

\* parseInt(req.query.x) || dflt
ParseIntOr(q, dflt) == IF q = QNaN \/ q = 0 THEN dflt ELSE q

\* a feed request behind auth: answered 401, or pending with req.user set
RequestFeed(route) ==
  /\ Idle
  /\ \E tok \in Tokens, pq \in PageQueries, lq \in LimitQueries :
       IF auth(tok) # ""
       THEN /\ response' = Reply(route, tok, 401, auth(tok), Anonymous)
            /\ req' = req
       ELSE /\ req' = [route |-> route, token |-> tok, user |-> tok,
                       page |-> ParseIntOr(pq, DefaultPage),
                       limit |-> ParseIntOr(lq, DefaultLimit)]
            /\ response' = response
  /\ UNCHANGED <<users, posts, now>>
  /\ UNCHANGED extVars

RequestFeedFollowing == RequestFeed("feed/following")

RequestFeedForYou == RequestFeed("feed/for-you")

\* a discover request behind optionalAuth: always pending
RequestDiscover ==
  /\ Idle
  /\ \E tok \in Tokens, pq \in PageQueries, lq \in LimitQueries :
       req' = [route |-> "discover", token |-> tok, user |-> optionalAuth(tok),
               page |-> ParseIntOr(pq, DefaultPage),
               limit |-> ParseIntOr(lq, DefaultLimit)]
  /\ UNCHANGED <<users, posts, now, response>>
  /\ UNCHANGED extVars

\* the client reads the response
Receive ==
  /\ response # NoResponse
  /\ response' = NoResponse
  /\ UNCHANGED <<users, posts, now, req>>
  /\ UNCHANGED extVars

\* ------------------------------------------------------ mutating handlers
\* the _id of a new post: the first one that no post of the store carries
NewPostId ==
  CHOOSE i \in 1..(Cardinality(DOMAIN posts) + 1) :
    i \notin DOMAIN posts /\ \A j \in 1..(i - 1) : j \in DOMAIN posts

\* POST /api/posts
PostCreate ==
  /\ Idle
  /\ Cardinality(DOMAIN posts) < MaxPosts
  /\ \E tok \in Tokens :
       IF auth(tok) # ""
       THEN /\ response' = Reply("create", tok, 401, auth(tok), Anonymous)
            /\ UNCHANGED <<users, posts>>
       ELSE /\ posts' = [i \in DOMAIN posts \cup {NewPostId} |->
                           IF i \in DOMAIN posts THEN posts[i]
                           ELSE PostDoc(tok, now)]
            /\ users' = IF UserExists(tok)
                        THEN [users EXCEPT ![tok].totalPosts = @ + 1]
                        ELSE users
            /\ response' = Reply("create", tok, 201, "", tok)
  /\ InBounds(users', posts', now)
  /\ UNCHANGED <<now, req>>
  /\ UNCHANGED extVars

\* isLikedBy that only looks whether the post has likes
isLikedByAnyone(p, userId) == userId # Anonymous /\ p.likes # {}

isLikedBy(p, userId) == userId # Anonymous /\ userId \in p.likes

\* POST /api/posts/:id/like
PostLike ==
  /\ Idle
  /\ \E tok \in Tokens, id \in 1..MaxPosts :
       IF auth(tok) # ""
       THEN /\ response' = Reply("like", tok, 401, auth(tok), Anonymous)
            /\ posts' = posts
       ELSE IF ~PostExists(id) \/ ~posts[id].isActive
       THEN /\ response' = Reply("like", tok, 404, "", tok)
            /\ posts' = posts
       ELSE /\ posts' = [posts EXCEPT ![id].likes =
                           IF isLikedBy(posts[id], tok)
                           THEN @ \ {tok} ELSE @ \cup {tok}]
            /\ response' = Reply("like", tok, 200, "", tok)
  /\ InBounds(users, posts', now)
  /\ UNCHANGED <<users, now, req>>
  /\ UNCHANGED extVars

\* POST /api/posts/:id/comment
PostComment ==
  /\ Idle
  /\ \E tok \in Tokens, id \in 1..MaxPosts :
       IF auth(tok) # ""
       THEN /\ response' = Reply("comment", tok, 401, auth(tok), Anonymous)
            /\ posts' = posts
       ELSE IF ~PostExists(id) \/ ~posts[id].isActive
       THEN /\ response' = Reply("comment", tok, 404, "", tok)
            /\ posts' = posts
       ELSE /\ posts' = [posts EXCEPT ![id].comments = Append(@, tok)]
            /\ response' = Reply("comment", tok, 201, "", tok)
  /\ InBounds(users, posts', now)
  /\ UNCHANGED <<users, now, req>>
  /\ UNCHANGED extVars

\* body('content').trim().isLength({ min: 1, max: 2000 }); "" stands for a
\* body that fails it
Contents == {"", "text", "edited"}

\* post.author.equals(req.user.userId) that lets everybody through
isAuthorAnyone(p, userId) == TRUE

\* post.author.equals(req.user.userId)
isAuthor(p, userId) == p.author = userId

\* the handler of PUT /api/posts/:id behind auth
Update(tok, id, c) ==
  IF auth(tok) # ""
  THEN /\ response' = Reply("update", tok, 401, auth(tok), Anonymous)
       /\ posts' = posts
  ELSE IF c = ""
  THEN /\ response' = Reply("update", tok, 400, "", tok)
       /\ posts' = posts
  ELSE IF ~PostExists(id) \/ ~posts[id].isActive
  THEN /\ response' = Reply("update", tok, 404, "", tok)
       /\ posts' = posts
  ELSE IF ~isAuthor(posts[id], tok)
  THEN /\ response' = Reply("update", tok, 403, "", tok)
       /\ posts' = posts
  ELSE /\ posts' = [posts EXCEPT ![id].content = c]
       /\ response' = Reply("update", tok, 200, "", tok)

\* PUT /api/posts/:id
PostUpdate ==
  /\ Idle
  /\ \E tok \in Tokens, id \in 1..MaxPosts, c \in Contents : Update(tok, id, c)
  /\ InBounds(users, posts', now)
  /\ UNCHANGED <<users, now, req>>
  /\ UNCHANGED extVars

\* a delete that clears the isActive flag and keeps the record
DeleteEffectSoft(tok, id) ==
  /\ posts' = [posts EXCEPT ![id].isActive = FALSE]
  /\ users' = users

\* Post.findByIdAndDelete(req.params.id), then $inc: { totalPosts: -1 }
DeleteEffect(tok, id) ==
  /\ posts' = [i \in DOMAIN posts \ {id} |-> posts[i]]
  /\ users' = IF UserExists(tok)
              THEN [users EXCEPT ![tok].totalPosts = @ - 1]
              ELSE users

\* the handler of DELETE /api/posts/:id behind auth
Delete(tok, id) ==
  IF auth(tok) # ""
  THEN /\ response' = Reply("delete", tok, 401, auth(tok), Anonymous)
       /\ UNCHANGED <<users, posts>>
  ELSE IF ~PostExists(id)
  THEN /\ response' = Reply("delete", tok, 404, "", tok)
       /\ UNCHANGED <<users, posts>>
  ELSE IF ~isAuthor(posts[id], tok)
  THEN /\ response' = Reply("delete", tok, 403, "", tok)
       /\ UNCHANGED <<users, posts>>
  ELSE /\ DeleteEffect(tok, id)
       /\ response' = Reply("delete", tok, 200, "", tok)

\* DELETE /api/posts/:id
PostDelete ==
  /\ Idle
  /\ \E tok \in Tokens, id \in 1..MaxPosts : Delete(tok, id)
  /\ InBounds(users', posts', now)
  /\ UNCHANGED <<now, req>>
  /\ UNCHANGED extVars

\* an id as a URL carries it: 24 hex digits whose letters may be in either
\* case (param('id').isMongoId() accepts both)
UpperId(u) == IF u = "u1" THEN "U1" ELSE IF u = "u2" THEN "U2" ELSE "U3"
IdParams == Users \cup {UpperId(u) : u \in Users}

\* the ObjectId that User.findById(id), following.push(id) and
\* following.pull(id) cast the string to
CastId(id) == IF id \in Users THEN id ELSE CHOOSE u \in Users : UpperId(u) = id

\* userSchema.methods.isFollowing: following.includes(userId); the array
\* either casts the string before it compares or compares it as it is
isFollowing(u, id, casts) ==
  (IF casts THEN CastId(id) ELSE id) \in users[u].following

\* the handler of POST /api/users/:id/follow behind auth
Follow(tok, id, casts) ==
  IF auth(tok) # ""
  THEN /\ response' = Reply("follow", tok, 401, auth(tok), Anonymous)
       /\ users' = users
  ELSE IF id = tok
  THEN /\ response' = Reply("follow", tok, 400, "", tok)
       /\ users' = users
  ELSE IF ~UserExists(tok) \/ ~UserExists(CastId(id)) \/ ~users[CastId(id)].isActive
  THEN /\ response' = Reply("follow", tok, 404, "", tok)
       /\ users' = users
  ELSE IF isFollowing(tok, id, casts)
  THEN /\ users' = [users EXCEPT ![tok].following = @ \ {CastId(id)},
                                 ![CastId(id)].followers = @ \ {tok}]
       /\ response' = Reply("follow", tok, 200, "unfollowed", tok)
  ELSE /\ users' = [users EXCEPT ![tok].following = @ \cup {CastId(id)},
                                 ![CastId(id)].followers = @ \cup {tok}]
       /\ response' = Reply("follow", tok, 200, "followed", tok)

\* POST /api/users/:id/follow with the id written as the store prints it
UserFollow ==
  /\ Idle
  /\ \E tok \in Tokens, t \in Users : Follow(tok, t, TRUE)
  /\ InBounds(users', posts, now)
  /\ UNCHANGED <<posts, now, req>>
  /\ UNCHANGED extVars

\* POST /api/users/:id/follow with any id the validator lets through
UserFollowById ==
  /\ Idle
  /\ \E tok \in Tokens, id \in IdParams, casts \in BOOLEAN : Follow(tok, id, casts)
  /\ InBounds(users', posts, now)
  /\ UNCHANGED <<posts, now, req>>
  /\ UNCHANGED extVars

\* ---------------------------------------------------------- feed queries
interactions(p) == likesCount(p) + commentsCount(p)

\* createdAt: { $gte: new Date(Date.now() - days) }
CreatedWithin(p, days) == p.createdAt >= now - days

\* .sort({ isPinned: -1, createdAt: -1 }): i comes strictly before j
PinnedThenNewest(i, j) ==
  \/ posts[i].isPinned /\ ~posts[j].isPinned
  \/ posts[i].isPinned = posts[j].isPinned /\ posts[i].createdAt > posts[j].createdAt

\* .sort({ createdAt: -1 }): i comes strictly before j
Newest(i, j) == posts[i].createdAt > posts[j].createdAt

\* the orders a sorted query may return the documents of S in; documents
\* with equal sort keys come in an order the store does not promise
SortedPinnedThenNewest(S) ==
  {f \in Perms(S) : \A i, j \in DOMAIN f : i < j => ~PinnedThenNewest(f[j], f[i])}

SortedNewest(S) ==
  {f \in Perms(S) : \A i, j \in DOMAIN f : i < j => ~Newest(f[j], f[i])}

\* a query that ignores .skip(n)
SkipNothing(seq, n) == seq

\* .skip(n)
Skip(seq, n) == SubSeq(seq, n + 1, Len(seq))

\* .limit(n): a limit of 0 is no limit
Limit(seq, n) == IF n = 0 THEN seq ELSE SubSeq(seq, 1, Min(n, Len(seq)))

\* a slice that starts at the first element whatever from is
SliceFromStart(seq, from, to) == SubSeq(seq, 1, Min(to - from, Len(seq)))

\* Array.prototype.slice(from, to)
Slice(seq, from, to) == SubSeq(seq, from + 1, Min(to, Len(seq)))

\* Math.floor(limit * 0.4) and Math.floor(limit * 0.3)
PopularShare(limit) == (limit * 4) \div 10
VerifiedShare(limit) == (limit * 3) \div 10

\* a following filter that lost its author condition
FollowingFilterEveryone(v) == {i \in DOMAIN posts : posts[i].isActive}

\* the filter of the following feed
FollowingFilter(v) ==
  LET followingIds == users[v].following
  IN IF followingIds = {}
     THEN {i \in DOMAIN posts : posts[i].author = v /\ posts[i].isActive}
     ELSE {i \in DOMAIN posts :
             /\ posts[i].author = v \/ posts[i].author \in followingIds
             /\ posts[i].isActive}

\* excludeIds without the following-set
excludeIdsSelfOnly(v) == {v}

\* excludeIds = [user._id, ...user.following]
excludeIds(v) == {v} \cup users[v].following

\* the three filters of the for-you feed
recentPopularFilter(v) ==
  {i \in DOMAIN posts :
     /\ posts[i].author \notin excludeIds(v)
     /\ posts[i].isActive
     /\ CreatedWithin(posts[i], PopularDays)
     /\ interactions(posts[i]) >= MinInteractions}

verifiedArtists(v) ==
  {u \in DOMAIN users :
     users[u].userType = "artist" /\ users[u].isVerified /\ u \notin excludeIds(v)}

\* pool B without its date condition
verifiedArtistsFilterAnyDate(v) ==
  {i \in DOMAIN posts :
     /\ posts[i].author \notin excludeIds(v)
     /\ posts[i].author \in verifiedArtists(v)
     /\ posts[i].isActive}

verifiedArtistsFilter(v) ==
  {i \in DOMAIN posts :
     /\ posts[i].author \notin excludeIds(v)
     /\ posts[i].author \in verifiedArtists(v)
     /\ posts[i].isActive
     /\ CreatedWithin(posts[i], VerifiedDays)}

\* pool C without the isActive condition
recentDiverseFilterAnyFlag(v) ==
  {i \in DOMAIN posts :
     /\ posts[i].author \notin excludeIds(v)
     /\ CreatedWithin(posts[i], DiverseDays)}

recentDiverseFilter(v) ==
  {i \in DOMAIN posts :
     /\ posts[i].author \notin excludeIds(v)
     /\ posts[i].isActive
     /\ CreatedWithin(posts[i], DiverseDays)}

\* a discover filter that asks for an interaction and a recent date
DiscoverFilterBoth ==
  {i \in DOMAIN posts :
     /\ posts[i].isActive
     /\ interactions(posts[i]) >= MinInteractions
     /\ CreatedWithin(posts[i], DiscoverDays)}

\* the filter of the discover feed
DiscoverFilter ==
  {i \in DOMAIN posts :
     /\ posts[i].isActive
     /\ \/ interactions(posts[i]) >= MinInteractions
        \/ CreatedWithin(posts[i], DiscoverDays)}

\* uniquePosts.sort(() => Math.random() - 0.5): any rearrangement of the list
Shuffles(seq) == {[k \in DOMAIN seq |-> seq[p[k]]] : p \in Perms(DOMAIN seq)}

\* a merge that removes nothing
uniquePostsKeepAll(seq) == seq

\* a merge that keeps the last occurrence of a post instead of the first
RECURSIVE uniquePostsKeepLast(_)
uniquePostsKeepLast(seq) ==
  IF seq = <<>> THEN <<>>
  ELSE LET rest == uniquePostsKeepLast(Tail(seq))
       IN IF \E k \in DOMAIN rest : rest[k] = Head(seq)
          THEN rest ELSE <<Head(seq)>> \o rest

\* algorithmPosts.filter((post, index, self) => index === self.findIndex(...))
RECURSIVE uniquePosts(_)
uniquePosts(seq) ==
  IF seq = <<>> THEN <<>>
  ELSE LET front == uniquePosts(SubSeq(seq, 1, Len(seq) - 1))
           last == seq[Len(seq)]
       IN IF \E k \in DOMAIN front : front[k] = last
          THEN front ELSE Append(front, last)

\* post.toObject(), before isLikedByUser is attached
toObject(i) ==
  [id |-> i, author |-> posts[i].author, createdAt |-> posts[i].createdAt,
   isActive |-> posts[i].isActive, isPinned |-> posts[i].isPinned,
   likes |-> posts[i].likes, likesCount |-> likesCount(posts[i]),
   commentsCount |-> commentsCount(posts[i]),
   hasIsLikedByUser |-> FALSE, isLikedByUser |-> FALSE]

\* postObj.isLikedByUser = post.isLikedBy(userId)
withUserData(i, userId) ==
  [toObject(i) EXCEPT !.hasIsLikedByUser = TRUE,
                      !.isLikedByUser = isLikedBy(posts[i], userId)]

\* a reply whose hasNext only says that the page is not empty
FeedReplyHasNextIfAny(route, tok, viewer, page, limit, rows, objs, locals) ==
  [route |-> route, token |-> tok, status |-> 200, code |-> "", viewer |-> viewer,
   page |-> page, limit |-> limit, posts |-> objs,
   hasNext |-> (Len(rows) > 0), locals |-> locals, jwt |-> NoJwt, resetToken |-> 0]

\* a reply that always announces a next page
FeedReplyHasNextAlways(route, tok, viewer, page, limit, rows, objs, locals) ==
  [route |-> route, token |-> tok, status |-> 200, code |-> "", viewer |-> viewer,
   page |-> page, limit |-> limit, posts |-> objs,
   hasNext |-> TRUE, locals |-> locals, jwt |-> NoJwt, resetToken |-> 0]

FeedReply(route, tok, viewer, page, limit, rows, objs, locals) ==
  [route |-> route, token |-> tok, status |-> 200, code |-> "", viewer |-> viewer,
   page |-> page, limit |-> limit, posts |-> objs,
   hasNext |-> (Len(rows) = limit), locals |-> locals, jwt |-> NoJwt, resetToken |-> 0]

\* ----------------------------------------------------------- feed handlers
\* a feed handler that saves the posts back with their pins cleared
FeedStoreEffectUnpins ==
  /\ posts' = [i \in DOMAIN posts |-> [posts[i] EXCEPT !.isPinned = FALSE]]
  /\ users' = users

\* the feed handlers only read: they call no save, update or delete
FeedStoreEffect == UNCHANGED <<users, posts>>

\* GET /api/posts/feed/following
GetFeedFollowing ==
  /\ req.route = "feed/following"
  /\ IF ~UserExists(req.user)
     THEN response' = Reply("feed/following", req.token, 404, "", req.user)
     ELSE \E sorted \in SortedPinnedThenNewest(FollowingFilter(req.user)) :
            LET rows == Limit(Skip(sorted, (req.page - 1) * req.limit), req.limit)
            IN response' =
                 FeedReply("feed/following", req.token, req.user, req.page, req.limit, rows,
                           [k \in DOMAIN rows |-> withUserData(rows[k], req.user)],
                           [NoLocals EXCEPT !.rows = Len(rows)])
  /\ req' = NoRequest
  /\ FeedStoreEffect
  /\ UNCHANGED now
  /\ UNCHANGED extVars

\* GET /api/posts/feed/for-you
GetFeedForYou ==
  /\ req.route = "feed/for-you"
  /\ IF ~UserExists(req.user)
     THEN response' = Reply("feed/for-you", req.token, 404, "", req.user)
     ELSE \E sortedA \in SortedNewest(recentPopularFilter(req.user)),
             sortedB \in SortedNewest(verifiedArtistsFilter(req.user)),
             sortedC \in SortedNewest(recentDiverseFilter(req.user)) :
            LET limit == req.limit
                recentPopular == Limit(sortedA, PopularShare(limit))
                verifiedArtistsPosts ==
                  IF Len(recentPopular) < limit
                  THEN Limit(sortedB, VerifiedShare(limit)) ELSE <<>>
                afterB == recentPopular \o verifiedArtistsPosts
                recentDiverse ==
                  IF Len(afterB) < limit
                  THEN Limit(sortedC, limit - Len(afterB)) ELSE <<>>
                algorithmPosts == afterB \o recentDiverse
                unique == uniquePosts(algorithmPosts)
            IN \E shuffled \in Shuffles(unique) :
                 LET shuffledPosts ==
                       Slice(shuffled, (req.page - 1) * limit, req.page * limit)
                 IN response' =
                      FeedReply("feed/for-you", req.token, req.user, req.page, limit, shuffledPosts,
                                [k \in DOMAIN shuffledPosts |->
                                   withUserData(shuffledPosts[k], req.user)],
                                [algorithmPosts |-> algorithmPosts,
                                 uniquePosts |-> unique,
                                 rows |-> Len(shuffledPosts)])
  /\ req' = NoRequest
  /\ FeedStoreEffect
  /\ UNCHANGED now
  /\ UNCHANGED extVars

\* GET /api/posts/discover
GetDiscover ==
  /\ req.route = "discover"
  /\ \E sorted \in SortedNewest(DiscoverFilter) :
       LET rows == Limit(Skip(sorted, (req.page - 1) * req.limit), req.limit)
       IN response' =
            FeedReply("discover", req.token, req.user, req.page, req.limit, rows,
                      [k \in DOMAIN rows |->
                         IF req.user # Anonymous
                         THEN withUserData(rows[k], req.user)
                         ELSE toObject(rows[k])],
                      [NoLocals EXCEPT !.rows = Len(rows)])
  /\ req' = NoRequest
  /\ FeedStoreEffect
  /\ UNCHANGED now
  /\ UNCHANGED extVars

Next ==
  \/ Tick
  \/ StoreSetPostActive
  \/ StoreSetPostPinned
  \/ StoreRemoveUser
  \/ StoreSetUserActive
  \/ RequestFeedFollowing
  \/ RequestFeedForYou
  \/ RequestDiscover
  \/ Receive
  \/ PostCreate
  \/ PostLike
  \/ PostComment
  \/ UserFollow
  \/ GetFeedFollowing
  \/ GetFeedForYou
  \/ GetDiscover

Spec == Init /\ [][Next]_vars

\* ------------------------------------------------- a store three weeks old
\* the posts the store holds when the for-you feed is asked for
MaxSeedPosts == 2
\* Date.now(), in days, at that moment
SeedNow == 22
\* the days on which the posts were created: 22, 21, 15, 14, 8, 7 and 0 days
\* ago, on both sides of the three windows of the for-you feed
SeedDates == {0, 1, 7, 8, 14, 15, 22}

\* a post as POST /api/posts leaves it, liked by u1 or by nobody
SeedPost(a, t, liked) ==
  [PostDoc(a, t) EXCEPT !.likes = IF liked THEN {"u1"} ELSE {}]

\* the stores after up to MaxSeedPosts posts were created, in the order of
\* their ids, and some of them liked
SeedStores ==
  UNION {[1..n -> {SeedPost(a, t, l) : a \in Users, t \in SeedDates, l \in BOOLEAN}] :
           n \in 0..MaxSeedPosts}

InitForYou ==
  /\ posts \in {ps \in SeedStores :
                  \A i, j \in DOMAIN ps : i < j => ps[i].createdAt <= ps[j].createdAt}
  /\ users = [u \in Users |->
                [(IF u = "u1" THEN UserDoc("fan", FALSE)
                  ELSE IF u = "u2" THEN UserDoc("artist", TRUE)
                  ELSE UserDoc("artist", FALSE))
                 EXCEPT !.totalPosts =
                   Cardinality({i \in DOMAIN posts : posts[i].author = u})]]
  /\ now = SeedNow
  /\ req = NoRequest
  /\ response = NoResponse
  /\ ExtInit

\* the for-you feed alone, asked for on a store three weeks old
NextForYou ==
  \/ RequestFeedForYou
  \/ GetFeedForYou
  \/ Receive

SpecForYou == InitForYou /\ [][NextForYou]_vars

\* ------------------------------------------------ likes, side by side
\* the saves a post document may go through
MaxSaves == 3

\* a like that writes back the whole array it read
pushLikeWholeArray(stored, seen, userId) == seen \cup {userId}

\* this.likes.push(userIdObj); this.save(): the array method records a $push
\* and save() sends that $push, which the store applies to the array it holds
pushLike(stored, seen, userId) == stored \cup {userId}

\* this.likes = this.likes.filter(...); this.save(): the array is assigned,
\* and save() sends it whole
filterLike(stored, seen, userId) == seen \ {userId}

\* the handler answers and the connection is free again
Answer(s, status) ==
  calls' = [calls EXCEPT ![s].pc = "answered", ![s].status = status]

\* POST /api/posts/:id/like up to its findById
LikeFind(s) ==
  /\ calls[s] = NoCall
  /\ \E tok \in Users, id \in 1..MaxPosts :
       /\ auth(tok) = ""
       /\ IF ~PostExists(id) \/ ~posts[id].isActive
          THEN calls' = [calls EXCEPT ![s] =
                 [NoCall EXCEPT !.op = "like", !.user = tok, !.id = id,
                                !.pc = "answered", !.status = 404]]
          ELSE /\ versions[id] < MaxSaves
               /\ calls' = [calls EXCEPT ![s] =
                    [NoCall EXCEPT !.op = "like", !.user = tok, !.id = id, !.pc = "save",
                                   !.flag = isLikedBy(posts[id], tok),
                                   !.seen = posts[id].likes,
                                   !.version = versions[id]]]
  /\ UNCHANGED <<users, posts, now, req, response>>
  /\ UNCHANGED <<clock, production, ipHits, userRequests, admitted, jwts, mail>>
  /\ UNCHANGED <<versions, events, lastAttend>>

\* post.like / post.unlike: the save. An assigned array is saved under the
\* condition that __v is the one loaded, and fails with a VersionError (500)
\* otherwise; a $push carries no such condition. Both increment __v.
LikeSave(s) ==
  LET c == calls[s]
  IN /\ c.op = "like" /\ c.pc = "save"
     /\ IF c.flag /\ versions[c.id] # c.version
        THEN /\ Answer(s, 500)
             /\ UNCHANGED <<posts, versions>>
        ELSE /\ posts' = [posts EXCEPT ![c.id].likes =
                            IF c.flag THEN filterLike(@, c.seen, c.user)
                            ELSE pushLike(@, c.seen, c.user)]
             /\ versions' = [versions EXCEPT ![c.id] = @ + 1]
             /\ calls' = [calls EXCEPT ![s].pc = "answered", ![s].status = 200,
                                       ![s].flag = ~c.flag,
                                       ![s].wrote = versions[c.id] + 1]
     /\ UNCHANGED <<users, now, req, response>>
     /\ UNCHANGED <<clock, production, ipHits, userRequests, admitted, jwts, mail>>
     /\ UNCHANGED <<events, lastAttend>>

\* the client has read the answer
Close(s) ==
  /\ calls[s].pc = "answered"
  /\ calls' = [calls EXCEPT ![s] = NoCall]
  /\ UNCHANGED <<users, posts, now, req, response>>
  /\ UNCHANGED <<clock, production, ipHits, userRequests, admitted, jwts, mail>>
  /\ UNCHANGED <<versions, events, lastAttend>>


\* a store with one post of u3, liked by nobody or by u1
InitLikes ==
  /\ posts \in {<<SeedPost("u3", 0, l)>> : l \in BOOLEAN}
  /\ users = [u \in Users |->
                [(IF u = "u1" THEN UserDoc("fan", FALSE)
                  ELSE IF u = "u2" THEN UserDoc("artist", TRUE)
                  ELSE UserDoc("artist", FALSE))
                 EXCEPT !.totalPosts = IF u = "u3" THEN 1 ELSE 0]]
  /\ now = 0
  /\ req = NoRequest
  /\ response = NoResponse
  /\ ExtInit

\* like requests on two connections
NextLikes ==
  \/ \E s \in Slots : LikeFind(s)
  \/ \E s \in Slots : LikeSave(s)
  \/ \E s \in Slots : Close(s)

SpecLikes == InitLikes /\ [][NextLikes]_vars

\* ---------------------------------------------- follows, side by side
\* the users who send follow requests
FollowCallers == {"u1", "u2"}

\* POST /api/users/:id/follow up to its two findById and isFollowing
FollowFind(s) ==
  /\ calls[s] = NoCall
  /\ \E tok \in FollowCallers, t \in Users :
       /\ auth(tok) = ""
       /\ IF t = tok
          THEN calls' = [calls EXCEPT ![s] =
                 [NoCall EXCEPT !.op = "follow", !.user = tok, !.target = t,
                                !.pc = "answered", !.status = 400]]
          ELSE IF ~UserExists(tok) \/ ~UserExists(t) \/ ~users[t].isActive
          THEN calls' = [calls EXCEPT ![s] =
                 [NoCall EXCEPT !.op = "follow", !.user = tok, !.target = t,
                                !.pc = "answered", !.status = 404]]
          ELSE calls' = [calls EXCEPT ![s] =
                 [NoCall EXCEPT !.op = "follow", !.user = tok, !.target = t,
                                !.pc = "save",
                                !.flag = isFollowing(tok, t, TRUE),
                                !.seen = users[tok].following]]
  /\ UNCHANGED <<users, posts, now, req, response>>
  /\ UNCHANGED <<clock, production, ipHits, userRequests, admitted, jwts, mail>>
  /\ UNCHANGED <<versions, events, lastAttend>>

\* follow: this.following.push(userId); await this.save()
\* unfollow: this.following.pull(userId); await this.save()
\* the array methods record a $push or a $pull, which save() sends
FollowSave(s) ==
  LET c == calls[s]
  IN /\ c.op = "follow" /\ c.pc = "save"
     /\ UserExists(c.user)
     /\ users' = [users EXCEPT ![c.user].following =
                    IF c.flag THEN @ \ {c.target} ELSE @ \cup {c.target}]
     /\ calls' = [calls EXCEPT ![s].pc = "peer"]
     /\ UNCHANGED <<posts, now, req, response>>
     /\ UNCHANGED <<clock, production, ipHits, userRequests, admitted, jwts, mail>>
     /\ UNCHANGED <<versions, events, lastAttend>>

\* follow: findByIdAndUpdate(userId, { $addToSet: { followers: this._id } })
\* unfollow: findByIdAndUpdate(userId, { $pull: { followers: this._id } })
\* and the handler's res.json
FollowPeer(s) ==
  LET c == calls[s]
  IN /\ c.op = "follow" /\ c.pc = "peer"
     /\ users' = IF UserExists(c.target)
                 THEN [users EXCEPT ![c.target].followers =
                         IF c.flag THEN @ \ {c.user} ELSE @ \cup {c.user}]
                 ELSE users
     /\ calls' = [calls EXCEPT ![s].pc = "answered", ![s].status = 200,
                               ![s].flag = ~c.flag]
     /\ UNCHANGED <<posts, now, req, response>>
     /\ UNCHANGED <<clock, production, ipHits, userRequests, admitted, jwts, mail>>
     /\ UNCHANGED <<versions, events, lastAttend>>

\* follow requests on two connections
NextFollowRace ==
  \/ \E s \in Slots : FollowFind(s)
  \/ \E s \in Slots : FollowSave(s)
  \/ \E s \in Slots : FollowPeer(s)
  \/ \E s \in Slots : Close(s)

SpecFollowRace == Init /\ [][NextFollowRace]_vars

\* ------------------------------------------- post counter, side by side
\* the users who create and delete posts
CounterCallers == {"u1", "u2"}

\* the _id of a new post; an ObjectId is never issued twice, and versions
\* records the ids that were issued
FreshPostIds == {i \in 1..MaxPosts : versions[i] = 0 /\ i \notin DOMAIN posts}

\* POST /api/posts up to await post.save()
CreateSave(s) ==
  /\ calls[s] = NoCall
  /\ FreshPostIds # {}
  /\ \E tok \in CounterCallers :
       LET id == CHOOSE i \in FreshPostIds : \A j \in FreshPostIds : i <= j
       IN /\ auth(tok) = ""
          /\ posts' = [i \in DOMAIN posts \cup {id} |->
                         IF i \in DOMAIN posts THEN posts[i] ELSE PostDoc(tok, now)]
          /\ versions' = [versions EXCEPT ![id] = 1]
          /\ calls' = [calls EXCEPT ![s] =
               [NoCall EXCEPT !.op = "create", !.user = tok, !.id = id, !.pc = "count"]]
  /\ UNCHANGED <<users, now, req, response>>
  /\ UNCHANGED <<clock, production, ipHits, userRequests, admitted, jwts, mail>>
  /\ UNCHANGED <<events, lastAttend>>

\* User.findByIdAndUpdate(req.user.userId, { $inc: { totalPosts: 1 } }) and
\* the handler's res.status(201)
CreateCount(s) ==
  LET c == calls[s]
  IN /\ c.op = "create" /\ c.pc = "count"
     /\ users' = IF UserExists(c.user)
                 THEN [users EXCEPT ![c.user].totalPosts = @ + 1]
                 ELSE users
     /\ Answer(s, 201)
     /\ UNCHANGED <<posts, now, req, response>>
     /\ UNCHANGED <<clock, production, ipHits, userRequests, admitted, jwts, mail>>
     /\ UNCHANGED <<versions, events, lastAttend>>

\* DELETE /api/posts/:id up to the author check
DeleteFind(s) ==
  /\ calls[s] = NoCall
  /\ \E tok \in CounterCallers, id \in 1..MaxPosts :
       /\ auth(tok) = ""
       /\ calls' = [calls EXCEPT ![s] =
            [NoCall EXCEPT !.op = "delete", !.user = tok, !.id = id,
               !.pc = IF PostExists(id) /\ isAuthor(posts[id], tok)
                      THEN "remove" ELSE "answered",
               !.status = IF ~PostExists(id) THEN 404
                          ELSE IF ~isAuthor(posts[id], tok) THEN 403 ELSE 0]]
  /\ UNCHANGED <<users, posts, now, req, response>>
  /\ UNCHANGED <<clock, production, ipHits, userRequests, admitted, jwts, mail>>
  /\ UNCHANGED <<versions, events, lastAttend>>

\* await Post.findByIdAndDelete(req.params.id): the result is not looked at
DeleteRemove(s) ==
  LET c == calls[s]
  IN /\ c.op = "delete" /\ c.pc = "remove"
     /\ posts' = [i \in DOMAIN posts \ {c.id} |-> posts[i]]
     /\ calls' = [calls EXCEPT ![s].pc = "count"]
     /\ UNCHANGED <<users, now, req, response>>
     /\ UNCHANGED <<clock, production, ipHits, userRequests, admitted, jwts, mail>>
     /\ UNCHANGED <<versions, events, lastAttend>>

\* User.findByIdAndUpdate(req.user.userId, { $inc: { totalPosts: -1 } }) and
\* the handler's res.json
DeleteCount(s) ==
  LET c == calls[s]
  IN /\ c.op = "delete" /\ c.pc = "count"
     /\ users' = IF UserExists(c.user)
                 THEN [users EXCEPT ![c.user].totalPosts = @ - 1]
                 ELSE users
     /\ Answer(s, 200)
     /\ UNCHANGED <<posts, now, req, response>>
     /\ UNCHANGED <<clock, production, ipHits, userRequests, admitted, jwts, mail>>
     /\ UNCHANGED <<versions, events, lastAttend>>

\* create and delete requests on two connections
NextCounterRace ==
  \/ \E s \in Slots : CreateSave(s)
  \/ \E s \in Slots : CreateCount(s)
  \/ \E s \in Slots : DeleteFind(s)
  \/ \E s \in Slots : DeleteRemove(s)
  \/ \E s \in Slots : DeleteCount(s)
  \/ \E s \in Slots : Close(s)

SpecCounterRace == Init /\ [][NextCounterRace]_vars

\* ----------------------------------------------------------------- events
\* req.params.id: the seeded event, or an id no event has
NoEvent == 0
\* req.body.status: the three statuses the validator lets through, and another
AttendStatuses == {"going", "interested", "not_going", "maybe"}
ValidAttendStatuses == {"going", "interested", "not_going"}

\* this.attendees.filter(a => !a.user.equals(userId))
withoutAttendee(attendees, userId) ==
  SelectSeq(attendees, LAMBDA a : a.user # userId)

\* an addAttendee that keeps the user's earlier entry
addAttendeeKeepingEarlier(attendees, userId, status) ==
  Append(attendees, [user |-> userId, status |-> status])

\* eventSchema.methods.addAttendee
addAttendee(attendees, userId, status) ==
  Append(withoutAttendee(attendees, userId), [user |-> userId, status |-> status])

\* eventSchema.methods.removeAttendee
removeAttendee(attendees, userId) == withoutAttendee(attendees, userId)

\* the virtuals attendeesCount, goingCount, interestedCount
attendeesCount(ev) == Len(ev.attendees)
goingCount(ev) == Len(SelectSeq(ev.attendees, LAMBDA a : a.status = "going"))
interestedCount(ev) == Len(SelectSeq(ev.attendees, LAMBDA a : a.status = "interested"))

\* POST /api/events/:id/attend
EventAttend ==
  /\ Idle
  /\ \E tok \in Tokens, e \in EventIds \cup {NoEvent}, st \in AttendStatuses :
       IF auth(tok) # ""
       THEN /\ response' = Reply("attend", tok, 401, auth(tok), Anonymous)
            /\ UNCHANGED <<events, lastAttend>>
       ELSE IF st \notin ValidAttendStatuses
       THEN /\ response' = Reply("attend", tok, 400, st, tok)
            /\ UNCHANGED <<events, lastAttend>>
       ELSE IF e \notin DOMAIN events \/ ~events[e].isActive
       THEN /\ response' = Reply("attend", tok, 404, st, tok)
            /\ UNCHANGED <<events, lastAttend>>
       ELSE /\ events' = [events EXCEPT ![e].attendees =
                            IF st = "not_going" THEN removeAttendee(@, tok)
                            ELSE addAttendee(@, tok, st)]
            /\ lastAttend' = [lastAttend EXCEPT ![e][tok] = st]
            /\ response' = Reply("attend", tok, 200, st, tok)
  /\ UNCHANGED <<users, posts, now, req>>
  /\ UNCHANGED <<clock, production, ipHits, userRequests, admitted, jwts, mail>>
  /\ UNCHANGED <<calls, versions>>

\* the store's owner takes an event off line or puts it back
StoreSetEventActive ==
  /\ response = NoResponse
  /\ \E e \in DOMAIN events :
       events' = [events EXCEPT ![e].isActive = ~events[e].isActive]
  /\ UNCHANGED <<users, posts, now, req, response>>
  /\ UNCHANGED <<clock, production, ipHits, userRequests, admitted, jwts, mail>>
  /\ UNCHANGED <<calls, versions, lastAttend>>

\* the attend route of the events router, one request at a time
NextEvents ==
  \/ EventAttend
  \/ StoreSetEventActive
  \/ StoreSetUserActive
  \/ Receive

SpecEvents == Init /\ [][NextEvents]_vars

\* ------------------------------------------- a store of many fresh posts
\* the posts of the last days the store holds
MaxFreshPosts == 5
\* the limits asked for: the smallest two for which both shares,
\* floor(0.4 * limit) and floor(0.3 * limit), are at least 1
WideLimits == {4, 5}

\* a fresh post is liked (by u1), or written by the verified artist u2, or
\* neither; the unverified artist u3 writes the others
FreshKinds == {"popular", "verified", "plain"}

FreshPost(kind, t) ==
  SeedPost(IF kind = "verified" THEN "u2" ELSE "u3", t, kind = "popular")

\* one post a day over the last n days, the newest today
FreshStores ==
  UNION {{[i \in 1..n |-> FreshPost(kinds[i], SeedNow - (n - i))] :
            kinds \in [1..n -> FreshKinds]} : n \in 0..MaxFreshPosts}

InitForYouWide ==
  /\ posts \in FreshStores
  /\ users = [u \in Users |->
                [(IF u = "u1" THEN UserDoc("fan", FALSE)
                  ELSE IF u = "u2" THEN UserDoc("artist", TRUE)
                  ELSE UserDoc("artist", FALSE))
                 EXCEPT !.totalPosts =
                   Cardinality({i \in DOMAIN posts : posts[i].author = u})]]
  /\ now = SeedNow
  /\ req = NoRequest
  /\ response = NoResponse
  /\ ExtInit

\* GET /api/posts/feed/for-you?page=..&limit=.. with a limit of 4 or 5
RequestFeedForYouWide ==
  /\ Idle
  /\ \E tok \in {"u1", NoToken}, page \in 1..MaxPage, limit \in WideLimits :
       IF auth(tok) # ""
       THEN /\ response' = Reply("feed/for-you", tok, 401, auth(tok), Anonymous)
            /\ req' = req
       ELSE /\ req' = [route |-> "feed/for-you", token |-> tok, user |-> tok,
                       page |-> page, limit |-> limit]
            /\ response' = response
  /\ UNCHANGED <<users, posts, now>>
  /\ UNCHANGED extVars

\* the for-you feed with limits of 4 and 5 on a store of fresh posts
NextForYouWide ==
  \/ RequestFeedForYouWide
  \/ GetFeedForYou
  \/ Receive

SpecForYouWide == InitForYouWide /\ [][NextForYouWide]_vars

\* the users router alone: follow requests with ids in either letter case,
\* while the store's owner disables, restores and removes users
NextFollow ==
  \/ UserFollowById
  \/ StoreSetUserActive
  \/ StoreRemoveUser
  \/ Receive

SpecFollow == Init /\ [][NextFollow]_vars

\* the posts router without its feeds: posts are created, edited, liked and
\* deleted, while the store's owner hides and shows posts
NextPosts ==
  \/ PostCreate
  \/ PostUpdate
  \/ PostDelete
  \/ PostLike
  \/ StoreSetPostActive
  \/ Receive

SpecPosts == Init /\ [][NextPosts]_vars

\* ----------------------------------------------------------- rate limits
\* WINDOW_SIZE = 15 * 60 * 1000 ms, here in seconds
WINDOW_SIZE == 900
MAX_REQUESTS == 200

\* max of the global limiter: production ? 100 : 1000
GlobalMaxProduction == 100
GlobalMaxDevelopment == 1000
GlobalMax == IF production THEN GlobalMaxProduction ELSE GlobalMaxDevelopment

\* requests of one user the model follows to a handler
MaxAdmitted == 301
\* hits of an address up to which the anonymous client sends as well
MaxAnonymous == 2
\* windows the clock runs through
MaxWindows == 1

\* the callers of the rate-limited routers: one user and an anonymous client
RateTokens == {"u1", NoToken}

\* time > windowStart
InWindow(times) == SelectSeq(times, LAMBDA t : t > clock - WINDOW_SIZE)

\* the client sends from one address until the global limiter has counted
\* max hits for it, then from the next one
ClientAddress ==
  IF ipHits["ip1"] < GlobalMax THEN "ip1"
  ELSE IF ipHits["ip2"] < GlobalMax THEN "ip2"
  ELSE "ip3"

\* globalLimiter on /api/: it counts the hit and lets max hits of an address
\* through in a window
globalLimiterPasses(ip) == ipHits[ip] < GlobalMax
globalLimiterHits(ip) ==
  [ipHits EXCEPT ![ip] = IF @ < GlobalMax THEN @ + 1 ELSE @]

\* req.user when userRateLimitMiddleware runs: app.use mounts the limiter
\* ahead of the routers, and only the auth middleware inside a router's
\* route sets req.user
ReqUserAtLimiter(tok) == Anonymous

\* userRequests.get(userId) after the old entries are filtered out
currentUserRequests(m, userId) ==
  IF userId \in DOMAIN userRequests[m]
  THEN InWindow(userRequests[m][userId]) ELSE <<>>

\* userRateLimitMiddleware: TRUE when it calls next()
userRateLimitPasses(m, userId) ==
  userId = Anonymous \/ Len(currentUserRequests(m, userId)) < MAX_REQUESTS

\* the Map of the limiter mounted on m after it has seen the request
userRateLimitMap(m, userId) ==
  IF userId = Anonymous THEN userRequests
  ELSE [userRequests EXCEPT ![m] =
          [u \in DOMAIN @ \cup {userId} |->
             IF u # userId THEN @[u]
             ELSE IF userRateLimitPasses(m, userId)
             THEN Append(currentUserRequests(m, userId), clock)
             ELSE currentUserRequests(m, userId)]]

\* a request to a route behind auth of one of the three routers, through
\* globalLimiter, userRateLimitMiddleware, auth and the handler
ApiRequest ==
  /\ Idle
  /\ \E tok \in RateTokens, m \in Mounts :
       LET ip == ClientAddress
           userId == ReqUserAtLimiter(tok)
       IN /\ tok = NoToken => ipHits[ip] < MaxAnonymous
          /\ ipHits' = globalLimiterHits(ip)
          /\ IF ~globalLimiterPasses(ip)
             THEN /\ response' = Reply(m, tok, 429, "GLOBAL_LIMIT", Anonymous)
                  /\ UNCHANGED <<userRequests, admitted>>
             ELSE /\ userRequests' = userRateLimitMap(m, userId)
                  /\ IF ~userRateLimitPasses(m, userId)
                     THEN /\ response' = Reply(m, tok, 429, "USER_LIMIT", Anonymous)
                          /\ admitted' = admitted
                     ELSE IF auth(tok) # ""
                     THEN /\ response' = Reply(m, tok, 401, auth(tok), Anonymous)
                          /\ admitted' = admitted
                     ELSE /\ Len(admitted[tok]) < MaxAdmitted
                          /\ response' = Reply(m, tok, 200, "", tok)
                          /\ admitted' = [admitted EXCEPT ![tok] = Append(@, clock)]
  /\ UNCHANGED <<users, posts, now, req, clock, production, jwts, mail>>
  /\ UNCHANGED raceVars

\* a window goes by: the global limiter starts to count again
WindowPasses ==
  /\ response = NoResponse
  /\ clock + WINDOW_SIZE <= MaxWindows * WINDOW_SIZE
  /\ clock' = clock + WINDOW_SIZE
  /\ ipHits' = [ip \in Ips |-> 0]
  /\ admitted' = [u \in Users |->
                    SelectSeq(admitted[u], LAMBDA t : t > clock' - WINDOW_SIZE)]
  /\ UNCHANGED <<users, posts, now, req, response, production, userRequests, jwts, mail>>
  /\ UNCHANGED raceVars

\* the process starts in production or in development mode
InitRate ==
  /\ StoreInit
  /\ clock = 0
  /\ production \in BOOLEAN
  /\ ipHits = [ip \in Ips |-> 0]
  /\ userRequests = [m \in Mounts |-> <<>>]
  /\ admitted = [u \in Users |-> <<>>]
  /\ jwts = {}
  /\ mail = {}
  /\ RaceInit

NextRate ==
  \/ ApiRequest
  \/ WindowPasses
  \/ Receive

SpecRate == InitRate /\ [][NextRate]_vars

\* ------------------------------------------------------------------ claims
FeedRoutes == {"feed/following", "feed/for-you", "discover"}
AuthFeedRoutes == {"feed/following", "feed/for-you"}

\* the response is a page of the given feed
IsFeedPage(route) == response.route = route /\ response.status = 200
IsAnyFeedPage == response.route \in FeedRoutes /\ response.status = 200

ReturnedSeq == [k \in DOMAIN response.posts |-> response.posts[k].id]
ReturnedIds == {response.posts[k].id : k \in DOMAIN response.posts}
Range(seq) == {seq[k] : k \in DOMAIN seq}
AgeDays(i) == now - posts[i].createdAt

\* C1: no feed page (following, for-you, discover) holds a post whose active
\* flag is false, whatever the viewer, the page and the limit.
C1_InactiveNeverReturned ==
  IsAnyFeedPage =>
    \A k \in DOMAIN response.posts :
      /\ response.posts[k].isActive
      /\ response.posts[k].id \in DOMAIN posts
      /\ posts[response.posts[k].id].isActive

\* a for-you page was served while the store held an inactive post of another,
\* unfollowed author that is less than a week old
C1_Witness ==
  /\ IsFeedPage("feed/for-you")
  /\ \E i \in DOMAIN posts :
       /\ ~posts[i].isActive
       /\ posts[i].author # response.viewer
       /\ posts[i].author \notin users[response.viewer].following
       /\ AgeDays(i) <= 7

C3_ForYouExcludesOwnAndFollowed ==
  IsFeedPage("feed/for-you") =>
    LET v == response.viewer
        excluded == {v} \cup users[v].following
    IN /\ \A k \in DOMAIN response.posts : response.posts[k].author \notin excluded
       /\ \A k \in DOMAIN response.locals.algorithmPosts :
            posts[response.locals.algorithmPosts[k]].author \notin excluded

\* a for-you page with a post on it, served while the store held a fresh
\* active post of an author the viewer follows
C3_Witness ==
  /\ IsFeedPage("feed/for-you")
  /\ response.posts # <<>>
  /\ \E i \in DOMAIN posts :
       /\ posts[i].isActive
       /\ AgeDays(i) = 0
       /\ posts[i].author \in users[response.viewer].following

FirstIndex(seq, x) ==
  CHOOSE k \in DOMAIN seq : seq[k] = x /\ \A j \in 1..(k - 1) : seq[j] # x

\* C5: the merged for-you candidates hold every post identity of pools A, B
\* and C exactly once, in the order of their first occurrence in A, B, C, and
\* the page cut from them holds no identity twice.
C5_MergeDeduplicates ==
  IsFeedPage("feed/for-you") =>
    LET all == response.locals.algorithmPosts
        u == response.locals.uniquePosts
    IN /\ \A a, b \in DOMAIN u : a # b => u[a] # u[b]
       /\ Range(u) = Range(all)
       /\ \A a, b \in DOMAIN u :
            a < b => FirstIndex(all, u[a]) < FirstIndex(all, u[b])
       /\ ReturnedIds \subseteq Range(u)
       /\ \A a, b \in DOMAIN ReturnedSeq : a # b => ReturnedSeq[a] # ReturnedSeq[b]

\* the pools delivered p, q, p: the post of pool A came again from pool C,
\* behind another one
C5_Witness ==
  /\ IsFeedPage("feed/for-you")
  /\ Len(response.locals.algorithmPosts) = 3
  /\ response.locals.algorithmPosts[1] = response.locals.algorithmPosts[3]
  /\ response.locals.algorithmPosts[1] # response.locals.algorithmPosts[2]

Max(a, b) == IF a > b THEN a ELSE b

\* elements (page-1)*limit .. page*limit - 1 of f, counted from 0
Window(f, page, limit) ==
  [k \in 1..Max(0, Min(limit, Len(f) - (page - 1) * limit)) |->
     f[(page - 1) * limit + k]]

\* the sequences the feed of the response may be cut from
SourceOrders ==
  IF response.route = "feed/following"
  THEN {f \in Perms(FollowingFilter(response.viewer)) :
          \A a, b \in DOMAIN f :
            a < b =>
              \/ posts[f[a]].isPinned /\ ~posts[f[b]].isPinned
              \/ /\ posts[f[a]].isPinned = posts[f[b]].isPinned
                 /\ posts[f[a]].createdAt >= posts[f[b]].createdAt}
  ELSE IF response.route = "discover"
  THEN {f \in Perms(DiscoverFilter) :
          \A a, b \in DOMAIN f :
            a < b => posts[f[a]].createdAt >= posts[f[b]].createdAt}
  ELSE Perms(Range(response.locals.uniquePosts))

C8_IsLikedByUser ==
  IsAnyFeedPage =>
    /\ response.token \in {NoToken, BadToken} => response.viewer = Anonymous
    /\ response.viewer # Anonymous => response.viewer = response.token
    /\ \A k \in DOMAIN response.posts :
         LET o == response.posts[k]
         IN IF response.viewer = Anonymous
            THEN ~o.hasIsLikedByUser
            ELSE /\ o.hasIsLikedByUser
                 /\ o.isLikedByUser <=> (response.viewer \in posts[o.id].likes)

\* a discover page for an authenticated viewer with a post somebody else likes
\* and the viewer does not
C8_Witness ==
  /\ IsFeedPage("discover")
  /\ response.viewer \in Users
  /\ \E k \in DOMAIN response.posts :
       /\ response.posts[k].likes # {}
       /\ response.viewer \notin response.posts[k].likes
       /\ ~response.posts[k].isLikedByUser

\* C9 as stated: a following or for-you request whose token names a user
\* that has no record is answered 404.
C9_MissingViewerIs404 ==
  ( /\ response.route \in AuthFeedRoutes
    /\ response.token \in Users
    /\ response.token \notin DOMAIN users ) => response.status = 404

\* C9: a following or for-you request whose token names a user that has no
\* record when the auth middleware looks it up is answered 401
\* USER_NOT_FOUND by the middleware and never reaches the handler; the
\* handler answers 404, without posts, only when the record is gone by the
\* time of its own lookup.
C9_MissingViewerIs401 ==
  [][ /\ ( /\ Idle
           /\ response'.route \in AuthFeedRoutes
           /\ response'.token \notin DOMAIN users )
         => ( /\ response'.status = 401
              /\ response'.code \in {"NO_TOKEN", "INVALID_TOKEN", "USER_NOT_FOUND"}
              /\ response'.token \in Users => response'.code = "USER_NOT_FOUND"
              /\ response'.posts = <<>> )
      /\ ( /\ Idle
           /\ req'.route \in AuthFeedRoutes )
         => req'.user \in DOMAIN users
      /\ ( /\ req.route \in AuthFeedRoutes
           /\ response' # response
           /\ req.user \notin DOMAIN users )
         => ( /\ response'.status = 404
              /\ response'.posts = <<>> )
    ]_vars

\* the middleware has answered 401 USER_NOT_FOUND to a feed request
C9_Witness ==
  /\ response.route \in AuthFeedRoutes
  /\ response.token \in Users
  /\ response.token \notin DOMAIN users
  /\ response.status = 401
  /\ response.code = "USER_NOT_FOUND"

\* the handler has answered 404: the record went between the two lookups
C9_RaceWitness ==
  /\ response.route \in AuthFeedRoutes
  /\ response.status = 404

\* a step of a feed request: its middleware or its handler
FeedStep ==
  \/ Idle /\ req'.route \in FeedRoutes
  \/ Idle /\ response'.route \in FeedRoutes
  \/ req.route \in FeedRoutes /\ req' = NoRequest

\* C10: serving a feed request changes neither the user store nor the post
\* store, and leaves nothing of the request behind.
C10_FeedsReadOnly ==
  [][ FeedStep =>
        /\ users' = users
        /\ posts' = posts
        /\ req.route \in FeedRoutes => req' = NoRequest
    ]_vars

\* a feed page with posts on it has been served
C10_Witness ==
  /\ IsAnyFeedPage
  /\ Len(response.posts) = 2
  /\ \E i \in DOMAIN posts : posts[i].likes # {}

\* -------------------------------------------------------------- accounts
\* expiresIn: '7d', in seconds
TokenSeconds == 604800
\* resetPasswordExpires = Date.now() + 60 * 60 * 1000, in seconds
ResetTokenSeconds == 3600
\* expiresInMinutes: 10 of the forgot-password answer, in seconds
AnnouncedResetSeconds == 600

\* JWTs signed, reset mails sent and password changes the model follows
MaxAccountSize == 4

\* Date.now() when the first request arrives
FirstInstant == 1

\* the instants at which requests arrive: the first one, one second later,
\* and around the announced and the real end of a reset token and of a JWT
Instants ==
  {FirstInstant + d :
     d \in {0, 1, AnnouncedResetSeconds, AnnouncedResetSeconds + 1,
            ResetTokenSeconds - 1, ResetTokenSeconds, TokenSeconds}}

\* the e-mail addresses submitted: the one of u1 and one of nobody
Emails == {"u1", "nobody"}
\* User.findOne({ email }) finds a record
EmailRegistered(e) == e \in DOMAIN users

\* passwords submitted: the right one, a wrong one
WrongPassword == -1

\* crypto.createHash('sha256').update(token).digest('hex')
Hash(token) == <<"sha256", token>>

\* jwt.sign({ userId }, secret, { expiresIn: '7d' })
generateToken(userId) ==
  [userId |-> userId, iat |-> clock, exp |-> clock + TokenSeconds]

\* the JWTs a client can present: the signed ones, none, a malformed one
Presented == {j.jwt : j \in jwts} \cup {NoJwt, BadJwt}

\* the reset tokens a client can present: the mailed ones and a made-up one
BogusResetToken == 0
PresentedResetTokens == {m.token : m \in mail} \cup {BogusResetToken}

\* the answer to a request that carried JWT j or reset token t
ReplyAccount(route, j, t, status, code, viewer) ==
  [Reply(route, j.userId, status, code, viewer) EXCEPT !.jwt = j, !.resetToken = t]

AccountSize(us, js, ms) ==
  Cardinality(js) + Cardinality(ms)
  + SumOver([u \in DOMAIN us |->
               us[u].password + (IF us[u].isActive THEN 0 ELSE 1)], DOMAIN us)

AccountInBounds(us, js, ms) == AccountSize(us, js, ms) <= MaxAccountSize

\* auth that does not compare lastPasswordReset with iat
authJwtNoPasswordCheck(j) ==
  IF j = NoJwt THEN "NO_TOKEN"
  ELSE IF j = BadJwt THEN "INVALID_TOKEN"
  ELSE IF clock >= j.exp THEN "TOKEN_EXPIRED"
  ELSE IF ~UserExists(j.userId) THEN "USER_NOT_FOUND"
  ELSE IF ~users[j.userId].isActive THEN "ACCOUNT_DISABLED"
  ELSE ""

\* auth on a signed JWT: the 401 code it answers with, or "" when it calls
\* next(); jwt.verify throws TokenExpiredError from exp on
authJwt(j) ==
  IF j = NoJwt THEN "NO_TOKEN"
  ELSE IF j = BadJwt THEN "INVALID_TOKEN"
  ELSE IF clock >= j.exp THEN "TOKEN_EXPIRED"
  ELSE IF ~UserExists(j.userId) THEN "USER_NOT_FOUND"
  ELSE IF ~users[j.userId].isActive THEN "ACCOUNT_DISABLED"
  ELSE IF /\ users[j.userId].lastPasswordReset # NoDate
          /\ j.iat # 0
          /\ users[j.userId].lastPasswordReset > j.iat
  THEN "PASSWORD_CHANGED"
  ELSE ""

\* user.password = newPassword; user.save(): the pre('save') hook hashes the
\* password and sets lastPasswordReset = new Date()
SetPassword(doc, newPassword) ==
  [doc EXCEPT !.password = newPassword, !.lastPasswordReset = clock]

\* a clearPasswordReset that leaves the fields as they are
clearPasswordResetKeeps(doc) == doc

\* userSchema.methods.clearPasswordReset
clearPasswordReset(doc) ==
  [doc EXCEPT !.resetPasswordToken = NoHash, !.resetPasswordExpires = NoDate]

\* userSchema.methods.createPasswordResetToken
createPasswordResetToken(doc, token) ==
  [doc EXCEPT !.resetPasswordToken = Hash(token),
              !.resetPasswordExpires = clock + ResetTokenSeconds]

\* User.findOne({ resetPasswordToken: hashedToken,
\*                resetPasswordExpires: { $gt: Date.now() } })
FindByResetToken(token) ==
  {u \in DOMAIN users :
     /\ users[u].resetPasswordToken = Hash(token)
     /\ users[u].resetPasswordExpires > clock}

\* crypto.randomBytes(32): a token no mail has carried yet
NewResetToken == Cardinality(mail) + 1

\* POST /api/auth/login
Login ==
  /\ Idle
  /\ \E e \in Emails, pw \in {0, 1, WrongPassword} :
       IF ~EmailRegistered(e)
       THEN /\ response' = ReplyAccount("login", NoJwt, 0, 401, "INVALID_CREDENTIALS", Anonymous)
            /\ jwts' = jwts
       ELSE IF ~users[e].isActive
       THEN /\ response' = ReplyAccount("login", NoJwt, 0, 401, "ACCOUNT_DISABLED", Anonymous)
            /\ jwts' = jwts
       ELSE IF pw # users[e].password
       THEN /\ response' = ReplyAccount("login", NoJwt, 0, 401, "INVALID_CREDENTIALS", Anonymous)
            /\ jwts' = jwts
       ELSE /\ jwts' = jwts \cup {[jwt |-> generateToken(e), via |-> "login",
                                    pwd |-> users[e].password]}
            /\ response' = ReplyAccount("login", generateToken(e), 0, 200, "", e)
  /\ AccountInBounds(users, jwts', mail)
  /\ UNCHANGED <<users, posts, now, req, clock, production, ipHits, userRequests,
                 admitted, mail>>
  /\ UNCHANGED raceVars

\* a request to a route behind auth, e.g. GET /api/auth/me
Protected ==
  /\ Idle
  /\ \E j \in Presented :
       response' = IF authJwt(j) # ""
                   THEN ReplyAccount("protected", j, 0, 401, authJwt(j), Anonymous)
                   ELSE ReplyAccount("protected", j, 0, 200, "", j.userId)
  /\ UNCHANGED <<users, posts, now, req>>
  /\ UNCHANGED extVars

\* a logout that signs the user out everywhere: every token issued before
\* this second is refused from now on
LogoutRevokes ==
  /\ Idle
  /\ \E j \in Presented :
       IF authJwt(j) # ""
       THEN /\ response' = ReplyAccount("logout", j, 0, 401, authJwt(j), Anonymous)
            /\ users' = users
       ELSE /\ response' = ReplyAccount("logout", j, 0, 200, "", j.userId)
            /\ users' = [users EXCEPT ![j.userId].lastPasswordReset = clock]
  /\ UNCHANGED <<posts, now, req>>
  /\ UNCHANGED extVars

\* POST /api/auth/logout: behind auth, it logs and answers; the audit log and
\* the token blacklist are commented out
Logout ==
  /\ Idle
  /\ \E j \in Presented :
       response' = IF authJwt(j) # ""
                   THEN ReplyAccount("logout", j, 0, 401, authJwt(j), Anonymous)
                   ELSE ReplyAccount("logout", j, 0, 200, "", j.userId)
  /\ UNCHANGED <<users, posts, now, req>>
  /\ UNCHANGED extVars

\* POST /api/auth/change-password
ChangePassword ==
  /\ Idle
  /\ \E j \in Presented, cur \in {0, 1, WrongPassword}, short \in BOOLEAN :
       IF authJwt(j) # ""
       THEN /\ response' = ReplyAccount("change-password", j, 0, 401, authJwt(j), Anonymous)
            /\ users' = users
       ELSE IF short
       THEN /\ response' = ReplyAccount("change-password", j, 0, 400, "INVALID_DATA", j.userId)
            /\ users' = users
       ELSE IF cur # users[j.userId].password
       THEN /\ response' = ReplyAccount("change-password", j, 0, 400, "WRONG_PASSWORD", j.userId)
            /\ users' = users
       ELSE /\ users' = [users EXCEPT ![j.userId] =
                           SetPassword(@, users[j.userId].password + 1)]
            /\ response' = ReplyAccount("change-password", j, 0, 200, "", j.userId)
  /\ AccountInBounds(users', jwts, mail)
  /\ UNCHANGED <<posts, now, req>>
  /\ UNCHANGED extVars

\* POST /api/auth/forgot-password; sendResetPasswordEmail delivers or throws
ForgotPassword ==
  /\ Idle
  /\ \E e \in Emails, delivered \in BOOLEAN :
       IF ~EmailRegistered(e)
       THEN /\ response' = Reply("forgot-password", e, 200, "IF_REGISTERED", Anonymous)
            /\ UNCHANGED <<users, mail>>
       ELSE IF ~users[e].isActive
       THEN /\ response' = Reply("forgot-password", e, 400, "ACCOUNT_DISABLED", Anonymous)
            /\ UNCHANGED <<users, mail>>
       ELSE IF delivered
       THEN /\ users' = [users EXCEPT ![e] = createPasswordResetToken(@, NewResetToken)]
            /\ mail' = mail \cup {[to |-> e, token |-> NewResetToken, at |-> clock]}
            /\ response' = Reply("forgot-password", e, 200, "EMAIL_SENT", Anonymous)
       ELSE /\ users' = [users EXCEPT ![e] =
                           clearPasswordReset(createPasswordResetToken(@, NewResetToken))]
            /\ mail' = mail
            /\ response' = Reply("forgot-password", e, 500, "EMAIL_FAILED", Anonymous)
  /\ AccountInBounds(users', jwts, mail')
  /\ UNCHANGED <<posts, now, req, clock, production, ipHits, userRequests, admitted, jwts>>
  /\ UNCHANGED raceVars

\* POST /api/auth/validate-reset-token
ValidateResetToken ==
  /\ Idle
  /\ \E t \in PresentedResetTokens :
       response' =
         IF FindByResetToken(t) = {}
         THEN ReplyAccount("validate-reset-token", NoJwt, t, 400, "INVALID_OR_EXPIRED", Anonymous)
         ELSE LET u == CHOOSE x \in FindByResetToken(t) : TRUE
              IN IF ~users[u].isActive
                 THEN ReplyAccount("validate-reset-token", NoJwt, t, 400, "ACCOUNT_DISABLED", Anonymous)
                 ELSE ReplyAccount("validate-reset-token", NoJwt, t, 200, "", u)
  /\ UNCHANGED <<users, posts, now, req>>
  /\ UNCHANGED extVars

\* a reset-password that sets the password and leaves the reset token in place
ResetPasswordKeepsToken ==
  /\ Idle
  /\ \E t \in PresentedResetTokens, short \in BOOLEAN :
       IF short
       THEN /\ response' = ReplyAccount("reset-password", NoJwt, t, 400, "INVALID_DATA", Anonymous)
            /\ UNCHANGED <<users, jwts>>
       ELSE IF FindByResetToken(t) = {}
       THEN /\ response' = ReplyAccount("reset-password", NoJwt, t, 400, "INVALID_OR_EXPIRED", Anonymous)
            /\ UNCHANGED <<users, jwts>>
       ELSE LET u == CHOOSE x \in FindByResetToken(t) : TRUE
            IN IF ~users[u].isActive
               THEN /\ response' = ReplyAccount("reset-password", NoJwt, t, 400, "ACCOUNT_DISABLED", Anonymous)
                    /\ UNCHANGED <<users, jwts>>
               ELSE /\ users' = [users EXCEPT ![u] = SetPassword(@, users[u].password + 1)]
                    /\ jwts' = jwts \cup {[jwt |-> generateToken(u), via |-> "reset",
                                            pwd |-> users[u].password + 1]}
                    /\ response' = ReplyAccount("reset-password", generateToken(u), t, 200, "", u)
  /\ AccountInBounds(users', jwts', mail)
  /\ UNCHANGED <<posts, now, req, clock, production, ipHits, userRequests, admitted, mail>>
  /\ UNCHANGED raceVars

\* POST /api/auth/reset-password
ResetPassword ==
  /\ Idle
  /\ \E t \in PresentedResetTokens, short \in BOOLEAN :
       IF short
       THEN /\ response' = ReplyAccount("reset-password", NoJwt, t, 400, "INVALID_DATA", Anonymous)
            /\ UNCHANGED <<users, jwts>>
       ELSE IF FindByResetToken(t) = {}
       THEN /\ response' = ReplyAccount("reset-password", NoJwt, t, 400, "INVALID_OR_EXPIRED", Anonymous)
            /\ UNCHANGED <<users, jwts>>
       ELSE LET u == CHOOSE x \in FindByResetToken(t) : TRUE
            IN IF ~users[u].isActive
               THEN /\ response' = ReplyAccount("reset-password", NoJwt, t, 400, "ACCOUNT_DISABLED", Anonymous)
                    /\ UNCHANGED <<users, jwts>>
               ELSE /\ users' = [users EXCEPT ![u] =
                                   clearPasswordReset(SetPassword(@, users[u].password + 1))]
                    /\ jwts' = jwts \cup {[jwt |-> generateToken(u), via |-> "reset",
                                            pwd |-> users[u].password + 1]}
                    /\ response' = ReplyAccount("reset-password", generateToken(u), t, 200, "", u)
  /\ AccountInBounds(users', jwts', mail)
  /\ UNCHANGED <<posts, now, req, clock, production, ipHits, userRequests, admitted, mail>>
  /\ UNCHANGED raceVars

\* the support desk disables or restores the account
AccountSetActive ==
  /\ response = NoResponse
  /\ \E b \in BOOLEAN :
       /\ users["u1"].isActive # b
       /\ users' = [users EXCEPT !["u1"].isActive = b]
  /\ AccountInBounds(users', jwts, mail)
  /\ UNCHANGED <<posts, now, req, response>>
  /\ UNCHANGED extVars

\* time passes until the next request arrives
TickAccount ==
  /\ response = NoResponse
  /\ \E t \in Instants :
       /\ t > clock
       /\ clock' = t
  /\ UNCHANGED <<users, posts, now, req, response, production, ipHits, userRequests,
                 admitted, jwts, mail>>
  /\ UNCHANGED raceVars

InitAccount ==
  /\ StoreInit
  /\ clock = FirstInstant
  /\ production = FALSE
  /\ ipHits = [ip \in Ips |-> 0]
  /\ userRequests = [m \in Mounts |-> <<>>]
  /\ admitted = [u \in Users |-> <<>>]
  /\ jwts = {}
  /\ mail = {}
  /\ RaceInit

NextAccount ==
  \/ Login
  \/ Protected
  \/ ChangePassword
  \/ ForgotPassword
  \/ ValidateResetToken
  \/ ResetPassword
  \/ AccountSetActive
  \/ TickAccount
  \/ Receive

SpecAccount == InitAccount /\ [][NextAccount]_vars

\* sessions: tokens are issued, used, logged out and outlived, while
\* passwords change and accounts are disabled and restored
NextSession ==
  \/ Login
  \/ Logout
  \/ Protected
  \/ ChangePassword
  \/ AccountSetActive
  \/ TickAccount
  \/ Receive

SpecSession == InitAccount /\ [][NextSession]_vars

\* password resets alone: reset tokens are mailed, validated, used and
\* outlived, while accounts are disabled and restored
NextReset ==
  \/ ForgotPassword
  \/ ValidateResetToken
  \/ ResetPassword
  \/ AccountSetActive
  \/ TickAccount
  \/ Receive

SpecReset == InitAccount /\ [][NextReset]_vars

\* ------------------------------------------------------------------ claims (accounts, routers)
\* C11: no user's following-set holds the user's own identity, and a follow
\* request that names the caller is answered 400 without a change.
C11_NoSelfFollow ==
  \A u \in DOMAIN users : u \notin users[u].following

\* C12 as stated: a successful delete keeps the post's record and clears its
\* active flag.
C12_DeleteKeepsRecord ==
  [][ \A tok \in Users, id \in DOMAIN posts :
        (Idle /\ Delete(tok, id) /\ response'.status = 200) =>
          /\ id \in DOMAIN posts'
          /\ ~posts'[id].isActive
    ]_vars

\* C12: a successful delete removes the post's record from the store, and
\* takes one from the author's totalPosts; every other post and every other
\* user stay as they are.
C12_DeleteRemovesRecord ==
  [][ \A tok \in Users, id \in DOMAIN posts :
        (Idle /\ Delete(tok, id) /\ response'.status = 200) =>
          /\ posts[id].author = tok
          /\ DOMAIN posts' = DOMAIN posts \ {id}
          /\ \A j \in DOMAIN posts' : posts'[j] = posts[j]
          /\ users'[tok].totalPosts = users[tok].totalPosts - 1
          /\ \A u \in DOMAIN users \ {tok} : users'[u] = users[u]
    ]_vars

\* a delete has been answered 200 and the store holds no post of the caller
\* any more, while it still holds a post of somebody else
C12_Witness ==
  /\ response.route = "delete"
  /\ response.status = 200
  /\ \A i \in DOMAIN posts : posts[i].author # response.viewer
  /\ posts # <<>>

C14_AtMost200PerWindow ==
  \A u \in Users : Len(InWindow(admitted[u])) <= MAX_REQUESTS

\* the answer at hand is that of a protected request that carried JWT j, and
\* was made in the state at hand
Presents(j) == response.route = "protected" /\ response.jwt = j

\* the signed JWTs handed out before the user's latest password change
IssuedBeforeChange ==
  {r \in jwts : r.pwd < users[r.jwt.userId].password}

\* the JWT reset-password handed out with the user's latest password change
AutoLogin ==
  {r \in jwts : r.via = "reset" /\ r.pwd = users[r.jwt.userId].password}

\* auth answered the request that carried JWT j with 401 and this code
Rejected(j, code) ==
  /\ Presents(j)
  /\ response.status = 401
  /\ response.code = code

\* the request that carried JWT j went through auth
Accepted(j) ==
  /\ Presents(j)
  /\ response.status # 401

C16_ForgotPasswordSameAnswer ==
  response.route = "forgot-password" /\ response.status # 500
    => response.status = 200 /\ response.code = "IF_REGISTERED"

\* C17: validate-reset-token and reset-password accept a reset token only
\* within 10 minutes of the forgot-password request that mailed it.
C17_ResetTokenTenMinutes ==
  \A m \in mail :
    /\ response.route \in {"validate-reset-token", "reset-password"}
    /\ response.resetToken = m.token
    /\ response.status = 200
    => clock - m.at <= AnnouncedResetSeconds


\* ------------------------------------------------------------------ claims (for-you pools, hasNext)
\* C18: for every limit >= 1 the candidates of the for-you feed, before
\* deduplication, number at most limit (at most floor(0.4*limit) of pool A,
\* floor(0.3*limit) of pool B and the remainder of pool C).
C18_CandidatesWithinLimit ==
  IsFeedPage("feed/for-you") =>
    Len(response.locals.algorithmPosts) <= response.limit

\* the author is a verified user of type artist
IsVerifiedArtist(a) ==
  a \in DOMAIN users /\ users[a].userType = "artist" /\ users[a].isVerified

\* C19: every post of a for-you page is at most 14 days old with a like or a
\* comment, or at most 21 days old and written by a verified artist, or at
\* most 7 days old. So none is older than 21 days, and none is 7 to 14 days
\* old without likes and comments unless a verified artist wrote it.
C19_ForYouPoolPredicate ==
  IsFeedPage("feed/for-you") =>
    \A k \in DOMAIN response.posts :
      LET o == response.posts[k]
          age == now - o.createdAt
          n == o.likesCount + o.commentsCount
      IN /\ \/ age <= 14 /\ n >= 1
            \/ IsVerifiedArtist(o.author) /\ age <= 21
            \/ age <= 7
         /\ age <= 21
         /\ ~(age > 7 /\ age <= 14 /\ n = 0 /\ ~IsVerifiedArtist(o.author))

\* a for-you page shows a verified artist's post of 15 to 21 days ago, while
\* the store holds another post the viewer does not get: one of 22 days ago,
\* or one of 8 to 14 days ago that nobody liked
C19_Witness ==
  /\ IsFeedPage("feed/for-you")
  /\ \E k \in DOMAIN response.posts :
       /\ now - response.posts[k].createdAt > 14
       /\ IsVerifiedArtist(response.posts[k].author)
  /\ \E i \in DOMAIN posts :
       /\ posts[i].isActive
       /\ posts[i].author \notin {response.viewer} \cup users[response.viewer].following
       /\ now - posts[i].createdAt > 7
       /\ \A k \in DOMAIN response.posts : response.posts[k].id # i

\* the posts the filter of a following or discover page matches
Matches ==
  IF response.route = "feed/following" THEN FollowingFilter(response.viewer)
  ELSE DiscoverFilter

IsPagedFeed == IsFeedPage("feed/following") \/ IsFeedPage("discover")

\* C20: on a following or discover page, with n posts matching the filter:
\* if n = page * limit > 0 the page is full and reports hasNext = true, and
\* the page after it (n = (page - 1) * limit) is empty and reports false;
\* if n is no multiple of limit, the last non-empty page reports false.
C20_HasNextAtBoundary ==
  IsPagedFeed =>
    LET n == Cardinality(Matches)
        page == response.page
        limit == response.limit
    IN /\ n > 0 /\ n = page * limit
            => Len(response.posts) = limit /\ response.hasNext
       /\ n > 0 /\ n = (page - 1) * limit
            => response.posts = <<>> /\ ~response.hasNext
       /\ n % limit # 0 /\ page = (n \div limit) + 1
            => Len(response.posts) = n % limit /\ ~response.hasNext

\* page 1 under limit 2 holds the only two matching posts and announces a
\* next page
C20_Witness ==
  /\ IsPagedFeed
  /\ Cardinality(Matches) = 2
  /\ response.page = 1
  /\ response.limit = 2
  /\ Len(response.posts) = 2
  /\ response.hasNext


\* ------------------------------------------------------------------ claims (requests side by side)
\* two like requests of different users on one post, both answered with
\* isLiked = true, that both loaded the post before either saved
TwoLikesInterleaved(s, t) ==
  /\ s # t
  /\ calls[s].op = "like" /\ calls[t].op = "like"
  /\ calls[s].pc = "answered" /\ calls[t].pc = "answered"
  /\ calls[s].status = 200 /\ calls[t].status = 200
  /\ calls[s].flag /\ calls[t].flag
  /\ calls[s].id = calls[t].id
  /\ calls[s].user # calls[t].user
  /\ calls[s].version = calls[t].version
  /\ calls[s].wrote < calls[t].wrote

\* C21 (as stated): when two like requests of different users interleave so
\* that both read the post before either saves, the later save wins: the
\* liker set is the one the later writer read plus that writer, without the
\* earlier writer.
C21_LastWriterWins ==
  \A s, t \in Slots :
    TwoLikesInterleaved(s, t) =>
      posts[calls[t].id].likes = calls[t].seen \cup {calls[t].user}

\* C21 (amended): when two like requests of different users interleave so
\* that both read the post before either saves, both answer success with
\* isLiked = true and the liker set holds both users, next to the likers
\* they read.
C21_BothLikesKept ==
  \A s, t \in Slots :
    TwoLikesInterleaved(s, t) =>
      posts[calls[t].id].likes = calls[t].seen \cup {calls[s].user, calls[t].user}

\* both interleaved likes have been answered
C21_Witness ==
  \E s, t \in Slots : TwoLikesInterleaved(s, t)


\* no handler stands between two of its awaits
Quiescent == \A s \in Slots : calls[s].pc \in {"idle", "answered"}

\* C22: whenever no follow request is in flight, B is in A's following-set
\* if and only if A is in B's followers set.
C22_FollowGraphConsistent ==
  Quiescent =>
    \A a, b \in DOMAIN users :
      b \in users[a].following <=> a \in users[b].followers


\* ------------------------------------------------------------------ claims (events)
\* the entries of user u in the attendee list of event e
EntriesOf(e, u) == SelectSeq(events[e].attendees, LAMBDA a : a.user = u)

\* C23: an event's attendee list holds at most one entry per user; the entry
\* carries the status of the user's latest attend request that was carried
\* out (going or interested); the user has no entry if that request said
\* not_going, or if there was none; no entry has status not_going, so
\* attendeesCount = goingCount + interestedCount.
C23_OneEntryPerUser ==
  \A e \in DOMAIN events :
    /\ \A u \in Users :
         /\ Len(EntriesOf(e, u)) <= 1
         /\ lastAttend[e][u] \in {"going", "interested"}
              => /\ Len(EntriesOf(e, u)) = 1
                 /\ EntriesOf(e, u)[1].status = lastAttend[e][u]
         /\ lastAttend[e][u] \in {"none", "not_going"} => EntriesOf(e, u) = <<>>
    /\ \A k \in DOMAIN events[e].attendees :
         events[e].attendees[k].status # "not_going"
    /\ attendeesCount(events[e]) = goingCount(events[e]) + interestedCount(events[e])

\* u1 asked for interested and then for going, u2 for going and then for
\* not_going: the list holds u1 once, as going
C23_Witness ==
  /\ response.route = "attend" /\ response.status = 200
  /\ response.viewer = "u1" /\ response.code = "going"
  /\ lastAttend[1]["u2"] = "not_going"
  /\ events[1].attendees = <<[user |-> "u1", status |-> "going"]>>


\* ------------------------------------------------------------------ claims (reset tokens, logout)
\* the account the reset requests are about
ResetUser == "u1"

\* the step is a request that presents a reset token
PresentsResetToken ==
  response'.route \in {"validate-reset-token", "reset-password"}

\* C24: a forgot-password request whose mail cannot be sent is answered 500
\* and leaves the user without reset token and expiry and with the same
\* password; from then on, as long as the user has no reset token, every
\* validate-reset-token and reset-password request is refused with 400 and
\* changes no password, and only a forgot-password request answered 200 with
\* a mail sent gives the user a reset token again.
C24_FailedMailClearsToken ==
  [][/\ response'.route = "forgot-password" /\ response'.status = 500 =>
          /\ response = NoResponse
          /\ users'[ResetUser].resetPasswordToken = NoHash
          /\ users'[ResetUser].resetPasswordExpires = NoDate
          /\ users'[ResetUser].password = users[ResetUser].password
          /\ mail' = mail
     /\ users[ResetUser].resetPasswordToken = NoHash /\ response = NoResponse
          /\ PresentsResetToken =>
          /\ response'.status = 400
          /\ users' = users
     /\ users[ResetUser].resetPasswordToken = NoHash
          /\ users'[ResetUser].resetPasswordToken # NoHash =>
          /\ response'.route = "forgot-password"
          /\ response'.status = 200
          /\ response'.code = "EMAIL_SENT"
          /\ mail' # mail
    ]_vars

\* a reset token that was mailed and has not expired is refused, because a
\* later forgot-password request failed to send its mail
C24_Witness ==
  /\ response.route \in {"validate-reset-token", "reset-password"}
  /\ response.status = 400
  /\ response.code = "INVALID_OR_EXPIRED"
  /\ \E m \in mail :
       /\ m.token = response.resetToken
       /\ clock < m.at + ResetTokenSeconds
  /\ users[ResetUser].password = 0
  /\ Cardinality(mail) = 1


\* ------------------------------------------------------------------ claims (for-you pages)
\* the posts pool C matches for the viewer of the answer
EligibleForC == recentDiverseFilter(response.viewer)

\* C25: in the for-you feed with limit >= 4 the three pools fetch at most
\* limit candidates, so every page >= 2 holds no post and reports
\* hasNext = false, however many posts the store holds; so a page 1 that
\* reports hasNext = true is followed by an empty page 2.
C25_OnlyOnePage ==
  IsFeedPage("feed/for-you") /\ response.limit >= 4 =>
    /\ Len(response.locals.algorithmPosts) <= response.limit
    /\ response.page >= 2 => response.posts = <<>> /\ ~response.hasNext
    /\ response.page = 1 /\ response.hasNext =>
         Len(response.locals.uniquePosts) = response.limit

\* page 2 under limit 4 is empty while five posts are eligible
C25_Witness ==
  /\ IsFeedPage("feed/for-you")
  /\ response.limit = 4
  /\ response.page = 2
  /\ response.posts = <<>>
  /\ Cardinality(EligibleForC) = 5
  /\ Len(response.locals.uniquePosts) = 4


\* the candidates that occur more than once among the three pools' results
FetchedTwice ==
  {i \in Range(response.locals.algorithmPosts) :
     Cardinality({k \in DOMAIN response.locals.algorithmPosts :
                    response.locals.algorithmPosts[k] = i}) > 1}

\* C26: pool C fetches posts that pool A or B already fetched, and
\* deduplication removes them: page 1 of the for-you feed holds as many posts
\* as there are distinct candidates (up to limit), every candidate fetched
\* twice matches the filter of pool A or of pool B, and hasNext is true only
\* if the distinct candidates number limit.
C26_PoolCRefetches ==
  IsFeedPage("feed/for-you") /\ response.page = 1 =>
    LET distinct == Cardinality(Range(response.locals.algorithmPosts))
        v == response.viewer
    IN /\ Len(response.posts) = Min(distinct, response.limit)
       /\ response.hasNext <=> distinct >= response.limit
       /\ \A i \in FetchedTwice :
            i \in recentPopularFilter(v) \cup verifiedArtistsFilter(v)

\* page 1 under limit 4 holds 3 posts and reports hasNext = false although 5
\* posts are eligible for pool C: pool C fetched a post of pool A or B again
C26_Witness ==
  /\ IsFeedPage("feed/for-you")
  /\ response.page = 1
  /\ response.limit = 4
  /\ Len(response.posts) = 3
  /\ ~response.hasNext
  /\ Cardinality(EligibleForC) = 5
  /\ FetchedTwice # {}
  /\ FetchedTwice \subseteq EligibleForC


\* ------------------------------------------------------------------ claims (post counter)
\* the posts in the store written by user u
PostsBy(u) == {i \in DOMAIN posts : posts[i].author = u}

\* C27: whenever no create or delete request is in flight, every user's
\* totalPosts is the number of existing posts that user wrote, and it is
\* never negative.
C27_PostCounterConsistent ==
  Quiescent =>
    \A u \in DOMAIN users :
      /\ users[u].totalPosts = Cardinality(PostsBy(u))
      /\ users[u].totalPosts >= 0


\* ------------------------------------------------------------------ claims (logout)
\* the JWTs generateToken can sign
SignedJwts ==
  {[userId |-> u, iat |-> t, exp |-> t + TokenSeconds] : u \in Users, t \in Instants}

\* the answer to a successful logout that presented j
LoggedOutWith(j) ==
  response.route = "logout" /\ response.status = 200 /\ response.jwt = j

\* the 401 codes of auth that do not depend on what logout did: the token is
\* past its exp, the password changed after the token was signed, or the
\* account was disabled in the store
RefusalsAfterLogout == {"TOKEN_EXPIRED", "PASSWORD_CHANGED", "ACCOUNT_DISABLED"}

\* C28: a logout request changes no user record and records no token, and
\* a token presented in a successful logout is accepted by auth on every
\* later request, unless it has expired, the password has changed since or
\* the account has been disabled.
C28_LogoutKeepsToken ==
  /\ [][response'.route = "logout" /\ response' # response
         => UNCHANGED <<users, posts, jwts, mail, clock>>]_vars
  /\ \A j \in SignedJwts :
       [](LoggedOutWith(j) =>
            [](response.route = "protected" /\ response.jwt = j =>
                 \/ response.status = 200
                 \/ response.status = 401 /\ response.code \in RefusalsAfterLogout))

\* a logout is answered 200 in a later second than the one its token was
\* signed in, and auth still lets the token through
C28_Witness ==
  /\ response.route = "logout"
  /\ response.status = 200
  /\ response.jwt \in SignedJwts
  /\ clock > response.jwt.iat
  /\ authJwt(response.jwt) = ""


\* ------------------------------------------------------------------ claims (reset token, single use)
\* the reset tokens the mails can carry
MailedResetTokens == 1..MaxAccountSize

\* the answer to a validate-reset-token or reset-password request with token t
UsesResetToken(t) ==
  /\ response.route \in {"validate-reset-token", "reset-password"}
  /\ response.resetToken = t

\* the answer to a reset-password request with token t that set the password
ResetDone(t) ==
  response.route = "reset-password" /\ response.status = 200 /\ response.resetToken = t

\* a later forgot-password has mailed the same user a newer token than t
Superseded(t) ==
  \E m, n \in mail : m.token = t /\ n.to = m.to /\ n.token > t /\ n.at >= m.at

\* C29: once a reset-password request with a token has set the password and
\* its answer has been read, every validate-reset-token or reset-password
\* request with that token is answered 400; a token the same user has been
\* mailed a newer one after is answered 400 as well; and a request answered
\* 400 leaves every user record, the password included, as it was.
C29_ResetTokenSingleUse ==
  /\ \A t \in MailedResetTokens :
       [](ResetDone(t) =>
            [](response = NoResponse =>
                 [](UsesResetToken(t) => response.status = 400)))
  /\ [](\A t \in MailedResetTokens :
          Superseded(t) /\ UsesResetToken(t) => response.status = 400)
  /\ [][/\ response' # response
         /\ response'.route \in {"validate-reset-token", "reset-password"}
         /\ response'.status = 400
         => users' = users]_vars

\* a token that set the password in an earlier second is presented again to
\* reset-password, within its hour, and is refused; the password is the one
\* the first use set
C29_Witness ==
  /\ response.route = "reset-password"
  /\ response.status = 400
  /\ response.code = "INVALID_OR_EXPIRED"
  /\ \E m \in mail :
       /\ m.token = response.resetToken
       /\ clock < m.at + ResetTokenSeconds
       /\ users[m.to].password = 1
       /\ users[m.to].lastPasswordReset > m.at
       /\ users[m.to].lastPasswordReset < clock
       /\ \E j \in jwts : j.via = "reset" /\ j.jwt.userId = m.to
  /\ Cardinality(mail) = 1

============================================================================
